---- MODULE Spec2Model ----
(***************************************************************************)
(* Slot orchestration core of the test dashboard (src/app.py).             *)
(*                                                                         *)
(* The durable slot collection (test_slots.json), the in-memory process    *)
(* table running_processes, the HTTP request handlers (Flask runs them on  *)
(* threads, threaded=True) and the supervisor threads run_test_script are  *)
(* modelled as one state machine.  Every `with data_lock:` block, and      *)
(* every single read or write of running_processes, is one atomic step;    *)
(* whatever the code does between two such points is a separate step, so   *)
(* the interleavings the threads can show are the interleavings of Next.   *)
(*                                                                         *)
(* The opaque device metadata (ssd_*, log_ip, log_port, script_command,    *)
(* script_args) and start_time are not part of the slot record.  The       *)
(* threads are followed without timestamps (Spec, RunSpec); last_update    *)
(* and the clock are part of the store where update_slot_field is taken    *)
(* on its own (SpecStore), and data_lock where its blocks are (SpecLock).  *)
(* Spec draws the lines of a child already matched against the two         *)
(* patterns; OutputSpec follows the text of the lines through the pipe.    *)
(* Spec takes the data file as the well-formed collection it holds;        *)
(* SpecFile follows its text, the temporary file and the archives.         *)
(***************************************************************************)
EXTENDS Integers, Sequences, FiniteSets, TLC

VARIABLES file, running_processes, req, sup, proc, sent, last, launches, lines,
          now, call, data_lock, task, stdout, disk, defaults, io, errpipe

\* The threads and the process table, and what the store is looked at with
\* on its own: the clock, the update_slot_field call, the lock and its users,
\* the text in the pipes of the children's standard output, and the files
\* on disk with DEFAULT_SLOTS in memory and the store operation at work, and
\* the pipes of the children's standard error.
core == <<running_processes, req, sup, proc, sent, last, launches, lines>>
aux == <<now, call, data_lock, task, stdout, disk, defaults, io, errpipe>>

vars == <<file, core, aux>>

----------------------------------------------------------------------------
(* Bounds of the model *)

\* Slots of the collection (NUM_SLOTS), launch requests, requests of the
\* other kinds, and lines of child output read, over the whole run.
NumSlots == 2
MaxLaunch == 2
MaxReq == 1
MaxLines == 1
\* Calls of update_slot_field, and tasks that use the lock, where the store
\* is looked at on its own.
MaxCalls == 3
MaxTasks == 3
\* Lines the children write, where the text of their output is followed.
MaxOutput == 2
\* Store operations, changes of the data file from outside, and seconds of
\* the clock, where the text of the file is followed.
MaxFileOps == 3
MaxFaults == 2
MaxTime == 1

Slots == 0 .. (NumSlots - 1)
\* <int:slot_id> routes accept any non-negative integer; NumSlots stands for
\* every id outside the collection.
SlotIds == 0 .. NumSlots
Reqs == 1 .. MaxReq
Procs == 1 .. MaxLaunch

Owners == {"alice"}
ScriptPaths == {"", "run.sh"}
NoProc == 0
SIGTERM == 15
\* The 500 of stderr_output[:500].
ErrLimit == 500
Tasks == 1 .. MaxTasks

----------------------------------------------------------------------------
(* The durable collection *)

DefaultSlot(i) ==
  [id |-> i, owner |-> "", status |-> "idle", progress |-> 0,
   test_case |-> "", script_path |-> "", log_file |-> "",
   error_msg |-> "", pid |-> 0]

DEFAULT_SLOTS == [i \in Slots |-> DefaultSlot(i)]

\* _load_data_unsafe on a well-formed file: the parsed collection.
LoadData == file

\* A range check that has lost its test for a negative id.
ValidSlotUpper(data, s) == ~(s >= Cardinality(DOMAIN data))

ValidSlot(data, s) == ~(s < 0 \/ s >= Cardinality(DOMAIN data))

\* data["slots"][slot_id]: a negative index counts from the end of the list.
PyIndex(data, s) == IF s < 0 THEN Cardinality(DOMAIN data) + s ELSE s

\* slot.update(d) / slot[key] = value: the named fields are overwritten,
\* every other field is kept.
SlotUpdate(slot, updates) == updates @@ slot

\* An update that also puts the slot's progress back to 0.
UpdateSlotFieldWhole(data, s, updates) ==
  IF ValidSlot(data, s)
    THEN [data EXCEPT ![PyIndex(data, s)] =
            SlotUpdate([@ EXCEPT !.progress = 0], updates)]
    ELSE data

\* An update written to every slot of the collection.
UpdateAllSlots(data, s, updates) ==
  IF ValidSlot(data, s)
    THEN [a \in DOMAIN data |-> SlotUpdate(data[a], updates)]
    ELSE data

\* update_slot_field: the collection it saves (the one it loaded when the
\* slot id is out of range).
UpdateSlotField(data, s, updates) ==
  IF ValidSlot(data, s)
    THEN [data EXCEPT ![PyIndex(data, s)] = SlotUpdate(@, updates)]
    ELSE data

\* What update_slot_field returns.
UpdateSlotFieldReturn(data, s) == ValidSlot(data, s)

\* The call of update_slot_field made last: how many there have been, its
\* arguments and what it returned.
NoCall == [n |-> 0, slot |-> 0, updates |-> <<>>, ret |-> TRUE]

\* A user of data_lock: outside every `with data_lock:` block.
NoTask == [op |-> "none", pc |-> "out"]

----------------------------------------------------------------------------
(* Characters and numerals *)

Char(text, i) == SubSeq(text, i, i)

Digits == "0123456789"

IsDigit(c) == \E d \in 1..10 : Char(Digits, d) = c
DigitValue(c) == (CHOOSE d \in 1..10 : Char(Digits, d) = c) - 1

\* \s of the regular expressions and the characters str.strip() removes.
IsSpace(c) == c \in {" ", "\t", "\n", "\r", "\f"}

\* re.IGNORECASE
Lower(c) ==
  LET uppers == "ABCDEFGHIJKLMNOPQRSTUVWXYZ"
      lowers == "abcdefghijklmnopqrstuvwxyz"
  IN IF \E i \in 1..26 : Char(uppers, i) = c
       THEN Char(lowers, CHOOSE i \in 1..26 : Char(uppers, i) = c)
       ELSE c

\* The first position from i on that \d+ does not take.
RECURSIVE SkipDigits(_, _)
SkipDigits(text, i) ==
  IF i <= Len(text) /\ IsDigit(Char(text, i))
    THEN SkipDigits(text, i + 1)
    ELSE i

\* int(match.group(1))
RECURSIVE ToInt(_)
ToInt(digits) ==
  IF digits = "" THEN 0
  ELSE 10 * ToInt(SubSeq(digits, 1, Len(digits) - 1))
         + DigitValue(Char(digits, Len(digits)))

----------------------------------------------------------------------------
(* The text of the data file *)

\* The keys of a slot, in the order DEFAULT_SLOTS gives them, and those
\* whose value is a number.
Fields ==
  <<"id", "owner", "status", "progress", "test_case", "script_path",
    "log_file", "error_msg", "pid">>
NumberFields == {"id", "progress", "pid"}

\* A text is the sequence of its JSON tokens, white space included: the
\* file holds them one after the other.
Quote(s) == "\"" \o s \o "\""
Unquote(token) == SubSeq(token, 2, Len(token) - 1)

RECURSIVE AllChars(_, _)
AllChars(token, i) ==
  IF i > Len(token) THEN TRUE
  ELSE IF Char(token, i) = " " \/ Char(token, i) = "\n"
    THEN AllChars(token, i + 1)
    ELSE FALSE

IsString(token) ==
  Len(token) >= 2 /\ Char(token, 1) = "\"" /\ Char(token, Len(token)) = "\""
IsNumber(token) == token # "" /\ SkipDigits(token, 1) = Len(token) + 1

\* json.dump(data, f, indent=2) of the keys of a slot from the j-th on, of
\* the slots from slot s on, and of the collection.
RECURSIVE DumpPairs(_, _)
DumpPairs(slot, j) ==
  IF j > Len(Fields) THEN <<>>
  ELSE LET f == Fields[j]
           value == IF f \in NumberFields THEN ToString(slot[f])
                                          ELSE Quote(slot[f])
       IN <<"\n      ", Quote(f), ":", " ", value>>
            \o (IF j < Len(Fields) THEN <<",">> ELSE <<>>)
            \o DumpPairs(slot, j + 1)

RECURSIVE DumpSlots(_, _)
DumpSlots(data, s) ==
  IF s >= Cardinality(DOMAIN data) THEN <<>>
  ELSE <<"\n    ", "{">> \o DumpPairs(data[s], 1) \o <<"\n    ", "}">>
         \o (IF s + 1 < Cardinality(DOMAIN data) THEN <<",">> ELSE <<>>)
         \o DumpSlots(data, s + 1)

Dump(data) ==
  <<"{", "\n  ", Quote("slots"), ":", " ", "[">>
    \o DumpSlots(data, 0) \o <<"\n  ", "]", "\n", "}">>

\* json.loads(content): white space between tokens is skipped; the value of
\* a key written twice is the later one.
NoParse == [ok |-> FALSE, value |-> <<>>, next |-> 0]

Token(tokens, i) == IF i <= Len(tokens) THEN tokens[i] ELSE ""

\* A parser that takes a string with its quotes.
ParseValueRaw(token) ==
  IF IsString(token) THEN token ELSE ToInt(token)

ParseValue(token) ==
  IF IsString(token) THEN Unquote(token) ELSE ToInt(token)

RECURSIVE ParsePairs(_, _, _)
ParsePairs(tokens, i, acc) ==
  IF /\ IsString(Token(tokens, i))
     /\ Token(tokens, i + 1) = ":"
     /\ IsString(Token(tokens, i + 2)) \/ IsNumber(Token(tokens, i + 2))
    THEN LET key == Unquote(tokens[i])
             slot == [f \in DOMAIN acc \cup {key} |->
                        IF f = key THEN ParseValue(tokens[i + 2]) ELSE acc[f]]
         IN IF Token(tokens, i + 3) = "," THEN ParsePairs(tokens, i + 4, slot)
            ELSE IF Token(tokens, i + 3) = "}"
              THEN [ok |-> TRUE, value |-> slot, next |-> i + 4]
            ELSE NoParse
    ELSE NoParse

RECURSIVE ParseSlots(_, _, _)
ParseSlots(tokens, i, acc) ==
  IF Token(tokens, i) = "{"
    THEN LET slot == ParsePairs(tokens, i + 1, <<>>)
             slots == Append(acc, slot.value)
         IN IF ~slot.ok THEN NoParse
            ELSE IF Token(tokens, slot.next) = ","
              THEN ParseSlots(tokens, slot.next + 1, slots)
            ELSE IF Token(tokens, slot.next) = "]"
              THEN [ok |-> TRUE, value |-> slots, next |-> slot.next + 1]
            ELSE NoParse
    ELSE NoParse

\* A token that is not white space.
IsToken(token) == token = "" \/ ~AllChars(token, 1)

\* The outcome of json.loads: the collection, its slots counted from 0, or
\* JSONDecodeError (ok is FALSE).
Loads(content) ==
  LET tokens == SelectSeq(content, IsToken)
      slots == ParseSlots(tokens, 5, <<>>)
  IN IF /\ Len(tokens) >= 4
        /\ SubSeq(tokens, 1, 4) = <<"{", Quote("slots"), ":", "[">>
        /\ slots.ok
        /\ Token(tokens, slots.next) = "}"
        /\ slots.next = Len(tokens)
       THEN [ok |-> TRUE,
             value |-> [s \in 0 .. (Len(slots.value) - 1) |-> slots.value[s + 1]]]
       ELSE [ok |-> FALSE, value |-> <<>>]

\* `not content or content.strip() == ""`
IsEmpty(content) == SelectSeq(content, IsToken) = <<>>

\* The files: the data file, the temporary file of a save, and the archives
\* of malformed files under the second they were made in.
InitDisk ==
  [exists |-> TRUE, content |-> Dump(DEFAULT_SLOTS),
   tmp_exists |-> FALSE, tmp |-> <<>>, backups |-> {}]

\* The store operation at work: its locals, what it returned or raised, and
\* the operations and outside changes of the file counted so far.
NoIo ==
  [op |-> "none", pc |-> "idle", data |-> <<>>, alias |-> FALSE,
   raised |-> FALSE, ret |-> TRUE, n |-> 0, faults |-> 0]

----------------------------------------------------------------------------
(* Responses, notifications *)

\* A response: the HTTP status, and the slot of the JSON body or its
\* "error" text.
NoSlot == [DefaultSlot(0) EXCEPT !.id = -1]
Ok(slot) == [code |-> 200, error |-> "", slot |-> slot]
Err(code, msg) == [code |-> code, error |-> msg, slot |-> NoSlot]
NoResult == [code |-> 0, error |-> "", slot |-> NoSlot]

Kinds == {"started", "completed", "failed", "stopped"}

\* notification_manager.notify_test_*: called only for a non-empty owner.
\* What a notification channel does with one message: it sends it, or it
\* raises (no network, a refused request, a timeout).
Deliveries == {"sent", "raised"}

\* A manager that lets a channel's exception reach its caller.
NotifyRaisesUnhandled(delivery) == delivery = "raised"

\* notify_test_*: whether the call raises in the caller.  Each channel is
\* used inside try/except Exception, which sets success = False, and the
\* callers ignore the returned flag.
NotifyRaises(delivery) == FALSE

Notify(bag, kind, owner, s) ==
  IF owner # "" THEN [bag EXCEPT ![<<kind, s>>] = @ + 1] ELSE bag

----------------------------------------------------------------------------
(* Threads *)

\* A request thread: the handler it runs, where it is, and its locals.
IdleReq ==
  [op |-> "none", pc |-> "idle", slot |-> 0, data |-> <<>>, arg |-> <<>>,
   keys |-> <<>>]

DoneReq == [IdleReq EXCEPT !.pc = "done"]

\* The response most recently returned to a client.
Response(op, s, result) == [op |-> op, slot |-> s, result |-> result]

NoSup == [pc |-> "none", slot |-> 0, rc |-> 0, stderr |-> "", owner |-> "",
          exc |-> "", detected_log_file |-> ""]

NoChild == [state |-> "none", signalled |-> FALSE, rc |-> 0, stderr |-> ""]

\* process.stdout: the lines the child has written, and how many of them the
\* `for line in process.stdout` loop has taken.
NoOutput == [written |-> <<>>, read |-> 0]

\* The pipe of a child's standard error: the blocks it holds, and whether
\* the child is inside a write.
NoPipe == [held |-> 0, writing |-> FALSE]

\* A child whose exit status has been collected, and a thread that has ended:
\* nothing reads their locals any more.
Reaped(c) == [c EXCEPT !.rc = 0, !.stderr = ""]
Ended(t) == [NoSup EXCEPT !.pc = "done", !.slot = t.slot]

\* Request threads are taken in order.
CanStart(r) ==
  /\ req[r].pc = "idle"
  /\ IF r = 1 THEN TRUE ELSE req[r - 1].pc # "idle"

\* The handler returns: the thread ends and the client has its response.
Return(r, op, s, result) ==
  /\ req' = [req EXCEPT ![r] = DoneReq]
  /\ last' = Response(op, s, result)

\* The number of supervisor threads started so far.
Launched == Cardinality({k \in Procs : sup[k].pc # "none"})

Init ==
  /\ file = DEFAULT_SLOTS
  /\ running_processes = [s \in Slots |-> NoProc]
  /\ req = [r \in Reqs |-> IdleReq]
  /\ sup = [k \in Procs |-> NoSup]
  /\ proc = [k \in Procs |-> NoChild]
  /\ sent = [n \in Kinds \X Slots |-> 0]
  /\ last = Response("none", 0, NoResult)
  /\ launches = 0
  /\ lines = 0
  /\ now = 0
  /\ call = NoCall
  /\ data_lock = FALSE
  /\ task = [t \in Tasks |-> NoTask]
  /\ stdout = [k \in Procs |-> NoOutput]
  /\ disk = InitDisk
  /\ defaults = DEFAULT_SLOTS
  /\ io = NoIo
  /\ errpipe = [k \in Procs |-> NoPipe]

----------------------------------------------------------------------------
(* launch_test *)

LaunchParams == [owner : Owners, script_path : ScriptPaths]

\* A pre-flight check that has lost its test for a running slot.
LaunchCheckNoBusy(data, s) ==
  IF ~ValidSlot(data, s) THEN "Invalid slot ID" ELSE "ok"

\* The pre-flight check made on the loaded collection.
LaunchCheck(data, s) ==
  IF ~ValidSlot(data, s) THEN "Invalid slot ID"
  ELSE IF data[s].status = "running" THEN "Slot is already running a test"
  ELSE "ok"

LaunchUpdate(slot, p) ==
  SlotUpdate(slot, [owner |-> p.owner, test_case |-> "tc",
                    script_path |-> p.script_path, status |-> "running",
                    progress |-> 0, error_msg |-> ""])

\* A critical section that writes the slot before it looks at its status.
LaunchStoreEager(data, s, p) ==
  IF ValidSlot(data, s)
    THEN [data EXCEPT ![s] = LaunchUpdate(@, p)]
    ELSE data

\* The collection on disk when the critical section is left.
LaunchStore(data, s, p) ==
  IF LaunchCheck(data, s) = "ok"
    THEN [data EXCEPT ![s] = LaunchUpdate(@, p)]
    ELSE data

\* The whole handler: the critical section of the pre-flight check and the
\* write of "running", then thread.start() and the start notification.  The
\* handler keeps nothing from one step to the next, so it is one step of
\* its own thread.
Launch(s, p) ==
  /\ launches < MaxLaunch
  /\ launches' = launches + 1
  /\ UNCHANGED <<lines, aux>>
  /\ IF p.script_path = ""
       THEN /\ last' = Response("launch", s, Err(400, "Script path is required"))
            /\ UNCHANGED <<file, running_processes, req, sup, proc, sent>>
       ELSE LET data == LoadData
                verdict == LaunchCheck(data, s)
                k == Launched + 1
            IN /\ file' = LaunchStore(data, s, p)
               /\ IF verdict = "ok"
                    THEN /\ sup' = [sup EXCEPT ![k] =
                                      [NoSup EXCEPT !.pc = "spawn", !.slot = s]]
                         /\ sent' = Notify(sent, "started", p.owner, s)
                         /\ \E d \in Deliveries :
                              last' = Response("launch", s,
                                IF p.owner # "" /\ NotifyRaises(d)
                                  THEN Err(500, "Internal Server Error")
                                  ELSE Ok(file'[s]))
                    ELSE /\ last' = Response("launch", s, Err(400, verdict))
                         /\ UNCHANGED <<sup, sent>>
               /\ UNCHANGED <<running_processes, req, proc>>

----------------------------------------------------------------------------
(* The child process: a bash script the core does not control *)

\* Does word stand in text at position i, whatever the case of the letters?
RECURSIVE WordAt(_, _, _)
WordAt(text, i, word) ==
  IF word = "" THEN TRUE
  ELSE /\ i <= Len(text)
       /\ Lower(Char(text, i)) = Char(word, 1)
       /\ WordAt(text, i + 1, SubSeq(word, 2, Len(word)))

\* The first position from i on that [:\s]+ does not take.
RECURSIVE SkipSeparators(_, _)
SkipSeparators(text, i) ==
  IF i <= Len(text) /\ (Char(text, i) = ":" \/ IsSpace(Char(text, i)))
    THEN SkipSeparators(text, i + 1)
    ELSE i

\* re.compile(r"progress[:\s]+(\d+)%", re.IGNORECASE) matched at position i:
\* the three classes are disjoint, so the greedy match is the only one.
ProgressAt(text, i) ==
  LET j == SkipSeparators(text, i + 8)
      m == SkipDigits(text, j)
  IN /\ WordAt(text, i, "progress")
     /\ j > i + 8
     /\ m > j
     /\ m <= Len(text)
     /\ Char(text, m) = "%"

\* progress_pattern.search(line): the figure of the leftmost match, -1 when
\* the line has none.
ProgressMatch(text) ==
  LET hits == {i \in 1..Len(text) : ProgressAt(text, i)}
      i == CHOOSE h \in hits : \A g \in hits : h <= g
      j == SkipSeparators(text, i + 8)
  IN IF hits = {} THEN -1
     ELSE ToInt(SubSeq(text, j, SkipDigits(text, j) - 1))

\* str.strip()
RECURSIVE Strip(_)
Strip(text) ==
  IF text = "" THEN ""
  ELSE IF IsSpace(Char(text, 1)) THEN Strip(SubSeq(text, 2, Len(text)))
  ELSE IF IsSpace(Char(text, Len(text)))
    THEN Strip(SubSeq(text, 1, Len(text) - 1))
  ELSE text

\* The end of the text `.+` takes from position i: up to the line's newline.
RECURSIVE EndOfLine(_, _)
EndOfLine(text, i) ==
  IF i <= Len(text) /\ Char(text, i) # "\n"
    THEN EndOfLine(text, i + 1)
    ELSE i - 1

\* re.compile(r"LOG_FILE=(.+)") matched at position i.
LogFileAt(text, i) ==
  /\ i + 8 <= Len(text)
  /\ SubSeq(text, i, i + 8) = "LOG_FILE="
  /\ EndOfLine(text, i + 9) >= i + 9

\* log_file_pattern.search(line) and log_match.group(1).strip()
LogFileMatch(text) ==
  LET hits == {i \in 1..Len(text) : LogFileAt(text, i)}
      i == CHOOSE h \in hits : \A g \in hits : h <= g
  IN IF hits = {} THEN [match |-> FALSE, path |-> ""]
     ELSE [match |-> TRUE,
           path |-> Strip(SubSeq(text, i + 9, EndOfLine(text, i + 9)))]

\* What one line of the child's standard output holds for the two patterns:
\* the figure of `progress: NN%` (-1 when the line has none), whether it has
\* `LOG_FILE=<path>`, and the path ("" when it has none).
ParseLine(text) ==
  [progress |-> ProgressMatch(text),
   log_match |-> LogFileMatch(text).match,
   log_file |-> LogFileMatch(text).path]

\* The line the threads of Spec are followed with.
Lines ==
  { ParseLine("Progress: 50% LOG_FILE=/var/logs/run1.log\n") }

\* The lines a child writes in OutputSpec.
RawLines ==
  { "Progress: 50%\n",
    "PROGRESS   7%\n",
    "progress: 150%\n",
    "LOG_FILE= /var/logs/run1.log \n",
    "progress: done\n",
    "Progress: 50% LOG_FILE=/var/logs/run1.log\n" }

\* n copies of a text, one after the other.
RECURSIVE Repeat(_, _)
Repeat(text, n) == IF n = 0 THEN "" ELSE text \o Repeat(text, n - 1)

\* A standard error of 510 characters.
LongStderr == Repeat("disk full ", 51)

\* How a child ends when nothing signals it: exit code and standard error.
Exits ==
  { [rc |-> 0, stderr |-> ""],
    [rc |-> 2, stderr |-> "disk full"] }

\* The same, with a standard error longer than the excerpt kept of it.
RunExits == Exits \cup { [rc |-> 1, stderr |-> LongStderr] }

\* Popen.terminate(): SIGTERM to a child that has not been reaped.
Terminate(children, k) ==
  IF children[k].state = "alive"
    THEN [children EXCEPT ![k].signalled = TRUE]
    ELSE children

\* The child ends by itself as e says, or dies of the signal it was sent.
Exit(k, e) ==
  /\ proc[k].state = "alive"
  /\ proc' = [proc EXCEPT ![k] =
                IF @.signalled
                  THEN [@ EXCEPT !.state = "exited", !.rc = -SIGTERM]
                  ELSE [@ EXCEPT !.state = "exited", !.rc = e.rc,
                                 !.stderr = e.stderr]]
  /\ UNCHANGED <<file, running_processes, req, sup, sent, last, launches, lines, aux>>

ChildExit(k) == \E e \in Exits : Exit(k, e)

----------------------------------------------------------------------------
(* run_test_script: the supervisor thread of one launch *)

\* subprocess.Popen: the child runs, or Popen raises.
SupSpawn(k) ==
  /\ sup[k].pc = "spawn"
  /\ \/ /\ proc' = [proc EXCEPT ![k].state = "alive"]
        /\ sup' = [sup EXCEPT ![k].pc = "register"]
     \/ /\ sup' = [sup EXCEPT ![k].pc = "exc_load",
                              ![k].exc = "[Errno 2] No such file or directory"]
        /\ UNCHANGED proc
  /\ UNCHANGED <<file, running_processes, req, sent, last, launches, lines, aux>>

\* A supervisor that goes on to the pid write without registering.
SupRegisterSkipped(k) ==
  /\ sup[k].pc = "register"
  /\ sup' = [sup EXCEPT ![k].pc = "pid"]
  /\ UNCHANGED <<file, running_processes, req, proc, sent, last, launches, lines, aux>>

\* running_processes[slot_id] = process
SupRegister(k) ==
  /\ sup[k].pc = "register"
  /\ running_processes' = [running_processes EXCEPT ![sup[k].slot] = k]
  /\ sup' = [sup EXCEPT ![k].pc = "pid"]
  /\ UNCHANGED <<file, req, proc, sent, last, launches, lines, aux>>

\* update_slot_field(slot_id, {"pid": process.pid})
SupPid(k) ==
  /\ sup[k].pc = "pid"
  /\ file' = UpdateSlotField(LoadData, sup[k].slot, [pid |-> k])
  /\ sup' = [sup EXCEPT ![k].pc = "read"]
  /\ UNCHANGED <<running_processes, req, proc, sent, last, launches, lines, aux>>

\* The figure is written as it was reported.
ClampNone(n) == n

\* The figure is rounded down to a multiple of ten.
ClampTens(n) == IF n < 100 THEN n - (n % 10) ELSE 100

\* min(progress, 100)
Clamp(n) == IF n < 100 THEN n ELSE 100

\* The body of `for line in process.stdout` for one line: the progress
\* pattern is handled in this step, the log-file pattern in the next one.
Interpret(k, line) ==
  /\ file' = IF line.progress >= 0
               THEN UpdateSlotField(LoadData, sup[k].slot,
                                    [progress |-> Clamp(line.progress)])
               ELSE file
  /\ sup' = [sup EXCEPT ![k].pc = IF line.log_match THEN "log" ELSE "read",
                        ![k].detected_log_file = line.log_file]
  /\ UNCHANGED <<running_processes, req, proc, sent, last, launches>>

\* One iteration of the loop, on a line the child writes at that moment.
SupReadLine(k) ==
  /\ sup[k].pc = "read"
  /\ proc[k].state = "alive"
  /\ lines < MaxLines
  /\ lines' = lines + 1
  /\ \E line \in Lines : Interpret(k, line)
  /\ UNCHANGED aux

\* update_slot_field(slot_id, {"log_file": detected_log_file})
SupLogFile(k) ==
  /\ sup[k].pc = "log"
  /\ file' = UpdateSlotField(LoadData, sup[k].slot,
                             [log_file |-> sup[k].detected_log_file])
  /\ sup' = [sup EXCEPT ![k].pc = "read", ![k].detected_log_file = ""]
  /\ UNCHANGED <<running_processes, req, proc, sent, last, launches, lines, aux>>

\* A wait that never returns.
SupWaitForever(k) ==
  /\ sup[k].pc = "read"
  /\ proc[k].state = "exited"
  /\ UNCHANGED vars

\* A wait that does not read the pipe to its end.
SupWaitEarly(k) ==
  /\ sup[k].pc = "read"
  /\ proc[k].state = "exited"
  /\ sup' = [sup EXCEPT ![k].pc = "load", ![k].rc = proc[k].rc,
                        ![k].stderr = proc[k].stderr]
  /\ proc' = [proc EXCEPT ![k] = Reaped(@)]
  /\ UNCHANGED <<file, running_processes, req, sent, last, launches, lines, aux>>

\* End of the child's output, then process.wait().
SupWait(k) ==
  /\ sup[k].pc = "read"
  /\ proc[k].state = "exited"
  /\ stdout[k].read = Len(stdout[k].written)
  /\ sup' = [sup EXCEPT ![k].pc = "load", ![k].rc = proc[k].rc,
                        ![k].stderr = proc[k].stderr]
  /\ proc' = [proc EXCEPT ![k] = Reaped(@)]
  /\ UNCHANGED <<file, running_processes, req, sent, last, launches, lines, aux>>

\* data = load_data(); owner = slot.get("owner", "")
SupLoad(k) ==
  /\ sup[k].pc \in {"load", "exc_load"}
  /\ sup' = [sup EXCEPT ![k].owner = LoadData[sup[k].slot].owner,
                        ![k].pc = IF @ = "load" THEN "final" ELSE "exc_final"]
  /\ UNCHANGED <<file, running_processes, req, proc, sent, last, launches, lines, aux>>

ExitCodeMsg(rc) == "Process exited with code " \o ToString(rc)

\* An excerpt that keeps the whole text.
SliceAll(text, n) == text

\* text[:n]
Slice(text, n) == IF Len(text) > n THEN SubSeq(text, 1, n) ELSE text

\* stderr_output[:500] if stderr_output else the exit-code message
ErrorMsg(stderr, rc) ==
  IF stderr # "" THEN Slice(stderr, ErrLimit) ELSE ExitCodeMsg(rc)

\* The fields of the terminal write.
FinalUpdate(rc, stderr) ==
  IF rc = 0
    THEN [status |-> "success", progress |-> 100]
    ELSE [status |-> "failed", error_msg |-> ErrorMsg(stderr, rc)]

\* The terminal update_slot_field and the notification that follows it.
SupFinal(k) ==
  /\ sup[k].pc = "final"
  /\ file' = UpdateSlotField(LoadData, sup[k].slot,
                             FinalUpdate(sup[k].rc, sup[k].stderr))
  /\ sent' = Notify(sent, IF sup[k].rc = 0 THEN "completed" ELSE "failed",
                    sup[k].owner, sup[k].slot)
  /\ \E d \in Deliveries :
       sup' = [sup EXCEPT ![k] =
                 IF @.owner # "" /\ NotifyRaises(d)
                   THEN [@ EXCEPT !.pc = "exc_load", !.rc = 0, !.stderr = "",
                                  !.owner = "", !.exc = "notification failed"]
                   ELSE [@ EXCEPT !.pc = "check", !.rc = 0, !.stderr = "",
                                  !.owner = ""]]
  /\ UNCHANGED <<running_processes, req, proc, last, launches, lines, aux>>

\* An except clause that records nothing and tells nobody.
SupExcLost(k) ==
  /\ sup[k].pc = "exc_final"
  /\ sup' = [sup EXCEPT ![k].pc = "exc_check", ![k].exc = "", ![k].owner = ""]
  /\ UNCHANGED <<file, running_processes, req, proc, sent, last, launches, lines, aux>>

\* except Exception as e: the failed write with str(e), and its notification.
SupExcFinal(k) ==
  /\ sup[k].pc = "exc_final"
  /\ file' = UpdateSlotField(LoadData, sup[k].slot,
                             [status |-> "failed", error_msg |-> sup[k].exc])
  /\ sent' = Notify(sent, "failed", sup[k].owner, sup[k].slot)
  /\ \E d \in Deliveries :
       sup' = [sup EXCEPT ![k] =
                 IF @.owner # "" /\ NotifyRaises(d) THEN Ended(@)
                 ELSE [@ EXCEPT !.pc = "exc_check", !.exc = "", !.owner = ""]]
  /\ UNCHANGED <<running_processes, req, proc, last, launches, lines, aux>>

\* if slot_id in running_processes:
SupCheck(k) ==
  /\ sup[k].pc \in {"check", "exc_check"}
  /\ sup' = [sup EXCEPT ![k] =
               IF running_processes[sup[k].slot] = NoProc THEN Ended(@)
               ELSE [@ EXCEPT !.pc = IF @ = "check" THEN "del" ELSE "exc_del"]]
  /\ UNCHANGED <<file, running_processes, req, proc, sent, last, launches, lines, aux>>

\* del running_processes[slot_id]: a KeyError when the entry has gone since
\* the test.  Inside the try block it reaches the except clause; inside the
\* except clause it ends the thread.
SupDel(k) ==
  /\ sup[k].pc \in {"del", "exc_del"}
  /\ IF running_processes[sup[k].slot] # NoProc
       THEN /\ running_processes' = [running_processes EXCEPT ![sup[k].slot] = NoProc]
            /\ sup' = [sup EXCEPT ![k] = Ended(@)]
       ELSE /\ sup' = [sup EXCEPT ![k] =
                         IF @.pc = "del"
                           THEN [@ EXCEPT !.pc = "exc_load",
                                          !.exc = ToString(sup[k].slot)]
                           ELSE Ended(@)]
            /\ UNCHANGED running_processes
  /\ UNCHANGED <<file, req, proc, sent, last, launches, lines, aux>>

Supervisor(k) ==
  \/ SupSpawn(k)
  \/ SupRegister(k)
  \/ SupPid(k)
  \/ SupReadLine(k)
  \/ SupLogFile(k)
  \/ SupWait(k)
  \/ SupLoad(k)
  \/ SupFinal(k)
  \/ SupExcFinal(k)
  \/ SupCheck(k)
  \/ SupDel(k)

----------------------------------------------------------------------------
(* Terminating a registered process: stop_test, reset_slot, reset_all_slots *)

\* The slot whose entry the handler is working on.
Key(t) == IF t.op = "reset_all" THEN Head(t.keys) ELSE t.slot

\* Where the handler goes once it is through with the entry, removed or not.
AfterKill(t) ==
  IF t.op = "reset_all" /\ Len(t.keys) > 1
    THEN [t EXCEPT !.pc = "term", !.keys = Tail(@)]
    ELSE [t EXCEPT !.pc = "save", !.keys = <<>>]

\* A KeyError from running_processes[slot_id]: stop_test answers 500, the
\* bare `except: pass` of the reset handlers swallows it.
KeyError(r) ==
  IF req[r].op = "stop"
    THEN /\ Return(r, "stop", req[r].slot,
                   Err(500, "Failed to stop test: " \o ToString(req[r].slot)))
    ELSE /\ req' = [req EXCEPT ![r] = AfterKill(@)]
         /\ UNCHANGED last

\* running_processes[slot_id].terminate()
KillTerminate(r) ==
  /\ req[r].pc = "term"
  /\ LET s == Key(req[r])
     IN IF running_processes[s] # NoProc
          THEN /\ proc' = Terminate(proc, running_processes[s])
               /\ req' = [req EXCEPT ![r].pc = "del"]
               /\ UNCHANGED last
          ELSE /\ KeyError(r)
               /\ UNCHANGED proc
  /\ UNCHANGED <<file, running_processes, sup, sent, launches, lines, aux>>

\* del running_processes[slot_id]
KillDel(r) ==
  /\ req[r].pc = "del"
  /\ LET s == Key(req[r])
     IN IF running_processes[s] # NoProc
          THEN /\ running_processes' = [running_processes EXCEPT ![s] = NoProc]
               /\ req' = [req EXCEPT ![r] = AfterKill(@)]
               /\ UNCHANGED last
          ELSE /\ KeyError(r)
               /\ UNCHANGED running_processes
  /\ UNCHANGED <<file, sup, proc, sent, launches, lines, aux>>

----------------------------------------------------------------------------
(* stop_test *)

\* data = load_data(), then the range check.
StopLoad(r, s) ==
  /\ CanStart(r)
  /\ LET data == LoadData
     IN IF ValidSlot(data, s)
          THEN /\ req' = [req EXCEPT ![r] =
                            [IdleReq EXCEPT !.op = "stop", !.pc = "check",
                                            !.slot = s, !.data = data]]
               /\ UNCHANGED last
          ELSE Return(r, "stop", s, Err(400, "Invalid slot ID"))
  /\ UNCHANGED <<file, running_processes, sup, proc, sent, launches, lines, aux>>

\* A stop that goes on to terminate whether or not the slot has an entry.
StopFindsAlways(registry, s) == TRUE

\* if slot_id in running_processes:
StopFinds(registry, s) == registry[s] # NoProc

StopCheck(r) ==
  /\ req[r].op = "stop"
  /\ req[r].pc = "check"
  /\ IF StopFinds(running_processes, req[r].slot)
       THEN /\ req' = [req EXCEPT ![r].pc = "term"]
            /\ UNCHANGED last
       ELSE Return(r, "stop", req[r].slot, Ok(req[r].data[req[r].slot]))
  /\ UNCHANGED <<file, running_processes, sup, proc, sent, launches, lines, aux>>

StopMessage == "Test stopped by user"

StopUpdate(slot) ==
  SlotUpdate(slot, [status |-> "failed", error_msg |-> StopMessage])

\* The slot of the loaded collection is marked failed, the whole loaded
\* collection is saved, the stop notification is sent.
StopSave(r) ==
  /\ req[r].op = "stop"
  /\ req[r].pc = "save"
  /\ LET s == req[r].slot
         data == [req[r].data EXCEPT ![s] = StopUpdate(@)]
     IN /\ file' = data
        /\ sent' = Notify(sent, "stopped", data[s].owner, s)
        /\ \E d \in Deliveries :
             Return(r, "stop", s,
                    IF data[s].owner # "" /\ NotifyRaises(d)
                      THEN Err(500, "Failed to stop test: notification failed")
                      ELSE Ok(data[s]))
  /\ UNCHANGED <<running_processes, sup, proc, launches, lines, aux>>

----------------------------------------------------------------------------
(* setup_slot, clear_slot_data, update_slot (PUT) *)

SetupParams == {[owner |-> "bob", script_path |-> "setup.sh"]}

\* What a script sends through src/src/test_client.py: update_progress(50)
\* and fail_test().
Updates ==
  { [progress |-> 50, status |-> "running"],
    [status |-> "failed", progress |-> 100] }

SetupUpdate(slot, p) ==
  SlotUpdate(slot, [owner |-> p.owner, test_case |-> "", script_path |-> p.script_path,
                    status |-> "idle", progress |-> 0, error_msg |-> ""])

ClearUpdate(slot) ==
  SlotUpdate(slot, [owner |-> "", status |-> "idle", progress |-> 0,
                    error_msg |-> "", log_file |-> "", pid |-> 0])

\* Only the keys present in the request body are copied.
PutUpdate(slot, u) == SlotUpdate(slot, u)

\* Setup and clear refuse a slot that the loaded collection shows running.
RefusesRunning(op) == op \in {"setup", "clear"}

RunningError(op) ==
  IF op = "setup" THEN "Cannot setup a running slot. Stop it first."
  ELSE "Cannot clear a running test. Stop it first."

\* data = load_data(), the range check, and the running check where made.
EditLoad(r, op, s, arg) ==
  /\ CanStart(r)
  /\ LET data == LoadData
     IN IF ~ValidSlot(data, s)
          THEN Return(r, op, s, Err(400, "Invalid slot ID"))
        ELSE IF RefusesRunning(op) /\ data[s].status = "running"
          THEN Return(r, op, s, Err(400, RunningError(op)))
        ELSE /\ req' = [req EXCEPT ![r] =
                          [IdleReq EXCEPT !.op = op, !.pc = "save", !.slot = s,
                                          !.data = data, !.arg = arg]]
             /\ UNCHANGED last
  /\ UNCHANGED <<file, running_processes, sup, proc, sent, launches, lines, aux>>

SetupLoad(r, s, p) == EditLoad(r, "setup", s, p)
ClearLoad(r, s) == EditLoad(r, "clear", s, <<>>)
PutLoad(r, s, u) == EditLoad(r, "put", s, u)

\* The slot of the loaded collection is changed and the whole loaded
\* collection is saved.
EditSave(r, op, slot) ==
  /\ req[r].op = op
  /\ req[r].pc = "save"
  /\ LET s == req[r].slot
         data == [req[r].data EXCEPT ![s] = slot]
     IN /\ file' = data
        /\ Return(r, op, s, Ok(data[s]))
  /\ UNCHANGED <<running_processes, sup, proc, sent, launches, lines, aux>>

SetupSave(r) == EditSave(r, "setup", SetupUpdate(req[r].data[req[r].slot], req[r].arg))
ClearSave(r) == EditSave(r, "clear", ClearUpdate(req[r].data[req[r].slot]))
PutSave(r) == EditSave(r, "put", PutUpdate(req[r].data[req[r].slot], req[r].arg))

----------------------------------------------------------------------------
(* reset_slot, reset_all_slots *)

\* A reset that writes the record of slot 0 whatever the slot.
ResetUpdateWhole(slot) == DefaultSlot(0)

ResetUpdate(slot) == SlotUpdate(slot, [f \in DOMAIN slot \ {"id"} |-> DefaultSlot(0)[f]])

ResetLoad(r, s) ==
  /\ CanStart(r)
  /\ LET data == LoadData
     IN IF ValidSlot(data, s)
          THEN /\ req' = [req EXCEPT ![r] =
                            [IdleReq EXCEPT !.op = "reset", !.pc = "check",
                                            !.slot = s, !.data = data]]
               /\ UNCHANGED last
          ELSE Return(r, "reset", s, Err(400, "Invalid slot ID"))
  /\ UNCHANGED <<file, running_processes, sup, proc, sent, launches, lines, aux>>

\* if slot_id in running_processes:
ResetCheck(r) ==
  /\ req[r].op = "reset"
  /\ req[r].pc = "check"
  /\ req' = [req EXCEPT ![r].pc =
               IF running_processes[req[r].slot] # NoProc THEN "term" ELSE "save"]
  /\ UNCHANGED <<file, running_processes, sup, proc, sent, last, launches, lines, aux>>

ResetSave(r) == EditSave(r, "reset", ResetUpdate(req[r].data[req[r].slot]))

\* list(running_processes.keys()), in ascending order of slot id.
RECURSIVE KeysFrom(_, _)
KeysFrom(registry, s) ==
  IF s >= NumSlots THEN <<>>
  ELSE (IF registry[s] # NoProc THEN <<s>> ELSE <<>>) \o KeysFrom(registry, s + 1)

ResetAllKeys(r) ==
  /\ CanStart(r)
  /\ LET keys == KeysFrom(running_processes, 0)
     IN req' = [req EXCEPT ![r] =
                  [IdleReq EXCEPT !.op = "reset_all", !.keys = keys,
                                  !.pc = IF keys = <<>> THEN "save" ELSE "term"]]
  /\ UNCHANGED <<file, running_processes, sup, proc, sent, last, launches, lines, aux>>

\* save_data(DEFAULT_SLOTS.copy()); the response holds the whole collection,
\* no single slot.
ResetAllSave(r) ==
  /\ req[r].op = "reset_all"
  /\ req[r].pc = "save"
  /\ file' = DEFAULT_SLOTS
  /\ Return(r, "reset_all", 0, Ok(NoSlot))
  /\ UNCHANGED <<running_processes, sup, proc, sent, launches, lines, aux>>

----------------------------------------------------------------------------

Request(r) ==
  \/ \E s \in SlotIds : StopLoad(r, s)
  \/ StopCheck(r)
  \/ KillTerminate(r)
  \/ KillDel(r)
  \/ StopSave(r)
  \/ \E s \in SlotIds, p \in SetupParams : SetupLoad(r, s, p)
  \/ SetupSave(r)
  \/ \E s \in SlotIds : ClearLoad(r, s)
  \/ ClearSave(r)
  \/ \E s \in SlotIds, u \in Updates : PutLoad(r, s, u)
  \/ PutSave(r)
  \/ \E s \in SlotIds : ResetLoad(r, s)
  \/ ResetCheck(r)
  \/ ResetSave(r)
  \/ ResetAllKeys(r)
  \/ ResetAllSave(r)

Next ==
  \/ \E s \in SlotIds, p \in LaunchParams : Launch(s, p)
  \/ \E r \in Reqs : Request(r)
  \/ \E k \in Procs : Supervisor(k)
  \/ \E k \in Procs : ChildExit(k)

Spec == Init /\ [][Next]_vars

----------------------------------------------------------------------------
(* Runs that follow one another and that no reset, setup, clear or field
   update comes across, with a stop request at any point and every way a
   child can end, under fair scheduling *)

RunRequest(r) ==
  \/ \E s \in SlotIds : StopLoad(r, s)
  \/ StopCheck(r)
  \/ KillTerminate(r)
  \/ KillDel(r)
  \/ StopSave(r)

\* A launch request made when no supervisor thread is at work.
RunLaunch(s, p) ==
  /\ \A k \in Procs : sup[k].pc \in {"none", "done"}
  /\ Launch(s, p)

RunNext ==
  \/ \E s \in SlotIds, p \in LaunchParams : RunLaunch(s, p)
  \/ \E r \in Reqs : RunRequest(r)
  \/ \E k \in Procs : Supervisor(k)
  \/ \E k \in Procs, e \in RunExits : Exit(k, e)

\* A started thread is scheduled again and again until it returns, and the
\* child, which the core does not control, is taken to end.
Fairness ==
  \A k \in Procs :
    /\ WF_vars(Supervisor(k))
    /\ WF_vars(\E e \in RunExits : Exit(k, e))

RunSpec == Init /\ [][RunNext]_vars /\ Fairness

----------------------------------------------------------------------------
(* OutputSpec: launches on different slots, the text of the children's      *)
(* output, and no other request                                            *)

\* What slot s is launched with.
OutputParams ==
  [s \in Slots |->
     IF s = 0 THEN [owner |-> "alice", script_path |-> "run.sh"]
              ELSE [owner |-> "bob", script_path |-> "setup.sh"]]

\* A launch request for a slot that has not been launched.
OutputLaunch(s) ==
  /\ \A k \in Procs : sup[k].pc # "none" => sup[k].slot # s
  /\ Launch(s, OutputParams[s])

\* The child writes a line to its standard output.
Emit(k, text) ==
  /\ proc[k].state = "alive"
  /\ lines < MaxOutput
  /\ lines' = lines + 1
  /\ stdout' = [stdout EXCEPT ![k].written = Append(@, text)]
  /\ UNCHANGED <<file, running_processes, req, sup, proc, sent, last, launches,
                 now, call, data_lock, task, disk, defaults, io, errpipe>>

\* One iteration of `for line in process.stdout`, on the next line of the
\* pipe.
SupReadPipe(k) ==
  /\ sup[k].pc = "read"
  /\ stdout[k].read < Len(stdout[k].written)
  /\ Interpret(k, ParseLine(stdout[k].written[stdout[k].read + 1]))
  /\ stdout' = [stdout EXCEPT ![k].read = @ + 1]
  /\ UNCHANGED <<lines, now, call, data_lock, task, disk, defaults, io, errpipe>>

OutputSupervisor(k) ==
  \/ SupSpawn(k)
  \/ SupRegister(k)
  \/ SupPid(k)
  \/ SupReadPipe(k)
  \/ SupLogFile(k)
  \/ SupWait(k)
  \/ SupLoad(k)
  \/ SupFinal(k)
  \/ SupExcFinal(k)
  \/ SupCheck(k)
  \/ SupDel(k)

OutputNext ==
  \/ \E s \in Slots : OutputLaunch(s)
  \/ \E k \in Procs : OutputSupervisor(k)
  \/ \E k \in Procs, text \in RawLines : Emit(k, text)
  \/ \E k \in Procs : ChildExit(k)

OutputSpec == Init /\ [][OutputNext]_vars

----------------------------------------------------------------------------
(* Steps and observations the properties speak of *)

\* launch_test has handled a request in this step.
LaunchStep == launches' = launches + 1

\* A launch has been accepted for slot s in this step: its supervisor
\* thread has been started.
Accepted(s) == \E k \in Procs : sup[k].pc = "none" /\ sup'[k].pc = "spawn"
                                  /\ sup'[k].slot = s

\* Request thread r returns in this step from handler op.
Returns(r, op) == req[r].op = op /\ req[r].pc # "done" /\ req'[r].pc = "done"

\* The children started for slot s that have not exited.
Alive(s) == {k \in Procs : proc[k].state = "alive" /\ sup[k].slot = s}

Registered(s) == running_processes[s] # NoProc

\* The result fields of a slot.
Outcome(slot) == <<slot.status, slot.progress, slot.error_msg>>

----------------------------------------------------------------------------
(* C1..C10 *)

\* C1: in every reachable state, for every slot, the persisted status is
\* 'running' if and only if running_processes holds an entry for the slot.
C1_RunningIffRegistered ==
  \A s \in Slots : (file[s].status = "running") <=> Registered(s)

\* C2: at every moment each slot has at most one child process that has been
\* started for it and has not yet exited.
C2_AtMostOneChild == \A s \in Slots : Cardinality(Alive(s)) <= 1

\* C3: a launch that fails its pre-flight check (slot id out of range, or
\* slot running) changes neither the durable collection nor the registry,
\* starts no supervisor thread and sends no notification.
C3_RejectedLaunchNoEffect ==
  [][(LaunchStep /\ last'.result.code # 200)
       => UNCHANGED <<file, running_processes, sup, proc, sent>>]_vars

\* C3, the case: a launch has been refused because the slot was running.
C3_Witness ==
  /\ last.op = "launch"
  /\ last.result = Err(400, "Slot is already running a test")

\* C4: a launch is accepted only in a step that finds the slot not running
\* and leaves it running, and a launch that finds the slot running is
\* refused as busy: of two launches of one non-running slot, the one that
\* comes second in the critical section is refused.
C4_OneLaunchWins ==
  [][\A s \in Slots :
       /\ Accepted(s) => file[s].status # "running" /\ file'[s].status = "running"
       /\ (LaunchStep /\ last'.slot = s /\ file[s].status = "running"
             /\ last'.result.error # "Script path is required")
            => /\ last'.result = Err(400, "Slot is already running a test")
               /\ ~Accepted(s)]_vars

\* C4, the case: two launches of the same slot, the first accepted and the
\* second refused as busy while the first run is still on.
C4_Witness ==
  /\ launches = 2
  /\ Launched = 1
  /\ last = Response("launch", sup[1].slot,
                     Err(400, "Slot is already running a test"))

\* C5: no committed write is lost: an operation on one slot never changes
\* the stored record of another slot.
C5_NoLostWrite ==
  [][\A r \in Reqs :
       (req[r].pc = "save" /\ req[r].op # "reset_all" /\ req'[r].pc = "done")
         => \A a \in Slots \ {req[r].slot} : file'[a] = file[a]]_vars

\* The edges of the status graph that the transition table does not have.
NoEdge ==
  { <<"idle", "success">>, <<"idle", "failed">>,
    <<"success", "failed">>, <<"failed", "success">> }

\* C6: every change of a slot's persisted status follows an edge of the
\* transition table.
C6_OnlyTableEdges ==
  [][\A s \in Slots : <<file[s].status, file'[s].status>> \notin NoEdge]_vars

\* A setup, launch, reset, reset-all or clear commits on slot s in this step.
ActedUpon(s) ==
  \/ LaunchStep /\ last'.slot = s
  \/ \E r \in Reqs :
       /\ req[r].pc = "save" /\ req'[r].pc = "done"
       /\ \/ req[r].op \in {"setup", "reset", "clear"} /\ req[r].slot = s
          \/ req[r].op = "reset_all"

\* C7: once a slot is 'success' or 'failed', its status, progress and
\* error_msg change only by a setup, launch, reset or clear of that slot.
C7_ResultsSticky ==
  [][\A s \in Slots :
       (file[s].status \in {"success", "failed"} /\ ~ActedUpon(s))
         => Outcome(file'[s]) = Outcome(file[s])]_vars

\* C8: a stop request made while the slot's persisted status is 'running'
\* has, when it returns, left the slot 'failed' with the stop message and
\* the registry without an entry for the slot.
C8_StopRunningFails ==
  [][\A r \in Reqs :
       (Returns(r, "stop") /\ req[r].data[req[r].slot].status = "running")
         => /\ file'[req[r].slot].status = "failed"
            /\ file'[req[r].slot].error_msg = StopMessage
            /\ ~Registered(req[r].slot)']_vars

ExitedNaturally(s) ==
  /\ Launched = 1
  /\ sup[1].slot = s
  /\ sup[1].pc = "done"
  /\ proc[1].state = "exited"
  /\ ~proc[1].signalled

\* C10: stop never answers with an error because the child has exited by
\* itself and its supervisor has removed the registry entry, wherever in
\* stop that removal falls.
C10_StopNeverErrors ==
  ~(last.op = "stop" /\ last.result.code = 500 /\ ExitedNaturally(last.slot))

----------------------------------------------------------------------------
(* update_slot_field on its own: the calls run_test_script makes, for any
   slot id, on the store the earlier calls have left, with the clock that
   stamps last_update *)

StoreIds == -1 .. NumSlots

\* The figures of the progress lines: 50%, and 150% for the clamp.
Reported == {50, 150}

\* The entry "last_update": datetime.now().isoformat() of an update; the
\* clock is the number of timestamps taken, and "" is time 0.
Stamp(updates, t) == [last_update |-> t] @@ updates

\* The update sets run_test_script passes, at time t: the pid, a progress,
\* the log file, the terminal status, and the failure of the except clause.
SupervisorUpdates(t) ==
  {[pid |-> k] : k \in Procs}
    \cup {Stamp([progress |-> Clamp(n)], t) : n \in Reported}
    \cup {[log_file |-> line.log_file] : line \in Lines}
    \cup {Stamp(FinalUpdate(e.rc, e.stderr), t) : e \in Exits}
    \cup {Stamp([status |-> "failed",
                 error_msg |-> "[Errno 2] No such file or directory"], t)}

InitStore ==
  /\ file = [i \in Slots |-> Stamp(DefaultSlot(i), 0)]
  /\ running_processes = [s \in Slots |-> NoProc]
  /\ req = [r \in Reqs |-> IdleReq]
  /\ sup = [k \in Procs |-> NoSup]
  /\ proc = [k \in Procs |-> NoChild]
  /\ sent = [n \in Kinds \X Slots |-> 0]
  /\ last = Response("none", 0, NoResult)
  /\ launches = 0
  /\ lines = 0
  /\ now = 0
  /\ call = NoCall
  /\ data_lock = FALSE
  /\ task = [t \in Tasks |-> NoTask]
  /\ stdout = [k \in Procs |-> NoOutput]
  /\ disk = InitDisk
  /\ defaults = DEFAULT_SLOTS
  /\ io = NoIo
  /\ errpipe = [k \in Procs |-> NoPipe]

\* update_slot_field(slot_id, updates): one critical section.
UpdateSlotFieldCall(s, updates) ==
  /\ call.n < MaxCalls
  /\ file' = UpdateSlotField(LoadData, s, updates)
  /\ call' = [n |-> call.n + 1, slot |-> s, updates |-> updates,
              ret |-> UpdateSlotFieldReturn(LoadData, s)]
  /\ now' = IF "last_update" \in DOMAIN updates THEN now + 1 ELSE now
  /\ UNCHANGED <<core, data_lock, task, stdout, disk, defaults, io, errpipe>>

StoreNext ==
  \E s \in StoreIds : \E updates \in SupervisorUpdates(now + 1) :
    UpdateSlotFieldCall(s, updates)

SpecStore == InitStore /\ [][StoreNext]_vars

\* update_slot_field has been called in this step.
Called == call'.n = call.n + 1

----------------------------------------------------------------------------
(* data_lock and the blocks that take it: load_data, save_data,
   update_slot_field and the critical section of launch_test, each run by
   any thread at any time *)

StoreOps == {"load_data", "save_data", "update_slot_field", "launch_test"}

\* The first access to the file made inside the block.
FirstAccess(op) == IF op = "save_data" THEN "write" ELSE "read"

\* The thread reaches `with data_lock:` and asks for the lock.
Enter(t, op) ==
  /\ task[t].pc = "out"
  /\ task' = [task EXCEPT ![t] = [op |-> op, pc |-> "wait"]]
  /\ UNCHANGED <<file, core, now, call, data_lock, stdout, disk, defaults, io, errpipe>>

\* A thread that goes in whether or not the lock is free.
AcquireBlind(t) ==
  /\ task[t].pc = "wait"
  /\ data_lock' = TRUE
  /\ task' = [task EXCEPT ![t].pc = FirstAccess(task[t].op)]
  /\ UNCHANGED <<file, core, now, call, stdout, disk, defaults, io, errpipe>>

\* Lock.acquire(): granted when the lock is free.
Acquire(t) ==
  /\ task[t].pc = "wait"
  /\ ~data_lock
  /\ data_lock' = TRUE
  /\ task' = [task EXCEPT ![t].pc = FirstAccess(task[t].op)]
  /\ UNCHANGED <<file, core, now, call, stdout, disk, defaults, io, errpipe>>

\* A block whose early return leaves without releasing the lock.
ReadReturnsHolding(t, ok) ==
  /\ task[t].pc = "read"
  /\ task' = [task EXCEPT ![t] =
                 IF task[t].op # "load_data" /\ ~ok THEN NoTask
                 ELSE [@ EXCEPT !.pc = IF task[t].op = "load_data"
                                         THEN "exit" ELSE "write"]]
  /\ UNCHANGED <<file, core, now, call, data_lock, stdout, disk, defaults, io, errpipe>>

\* _load_data_unsafe(): the file is read.  load_data then leaves the block;
\* update_slot_field and launch_test leave it when their checks fail
\* (return inside the block) and go on to save otherwise.
Read(t, ok) ==
  /\ task[t].pc = "read"
  /\ task' = [task EXCEPT ![t].pc =
                 IF task[t].op = "load_data" \/ ~ok THEN "exit" ELSE "write"]
  /\ UNCHANGED <<file, core, now, call, data_lock, stdout, disk, defaults, io, errpipe>>

\* _save_data_unsafe(data): the file is written, or the write raises; the
\* block is left either way.
Write(t) ==
  /\ task[t].pc = "write"
  /\ task' = [task EXCEPT ![t].pc = "exit"]
  /\ UNCHANGED <<file, core, now, call, data_lock, stdout, disk, defaults, io, errpipe>>

\* The end of the `with` block: Lock.release().
Release(t) ==
  /\ task[t].pc = "exit"
  /\ data_lock' = FALSE
  /\ task' = [task EXCEPT ![t] = NoTask]
  /\ UNCHANGED <<file, core, now, call, stdout, disk, defaults, io, errpipe>>

LockNext ==
  \/ \E t \in Tasks, op \in StoreOps : Enter(t, op)
  \/ \E t \in Tasks : Acquire(t)
  \/ \E t \in Tasks, ok \in BOOLEAN : Read(t, ok)
  \/ \E t \in Tasks : Write(t)
  \/ \E t \in Tasks : Release(t)

SpecLock == Init /\ [][LockNext]_vars

\* A thread inside a block is scheduled until it has left it, and a thread
\* waiting for a lock that is free again and again is granted it.
LockFairness ==
  \A t \in Tasks :
    /\ SF_vars(Acquire(t))
    /\ WF_vars(\E ok \in BOOLEAN : Read(t, ok))
    /\ WF_vars(Write(t))
    /\ WF_vars(Release(t))

SpecLockFair == SpecLock /\ LockFairness

\* The threads inside a `with data_lock:` block.
Inside == {t \in Tasks : task[t].pc \in {"read", "write", "exit"}}

----------------------------------------------------------------------------
(* C11..C20 *)

\* As far as the state tells, no stop, reset, reset-all, setup or clear has
\* been issued on slot s: the request thread has not started, or runs or
\* has just answered another handler or another slot.
Untouched(s) ==
  \A r \in Reqs :
    LET touches(op, a) ==
          op = "reset_all" \/ (op \in {"stop", "reset", "setup", "clear"} /\ a = s)
    IN \/ req[r].pc = "idle"
       \/ req[r].pc \notin {"idle", "done"} /\ ~touches(req[r].op, req[r].slot)
       \/ req[r].pc = "done" /\ last.op \notin {"none", "launch"}
                             /\ ~touches(last.op, last.slot)

\* The supervisor of run k makes its terminal write in this step, for a
\* child that exited with code rc.
FinalWrite(k) == sup[k].pc = "final" /\ sup'[k].pc = "check"

\* C11: when the child exits with code 0 and no stop, reset, setup or clear
\* has been issued on the slot, the terminal write leaves the slot with
\* status 'success', progress 100 and an empty error_msg.
C11_ExitZeroSucceeds ==
  [][\A k \in Procs :
       (FinalWrite(k) /\ sup[k].rc = 0 /\ Untouched(sup[k].slot))
         => Outcome(file'[sup[k].slot]) = <<"success", 100, "">>]_vars

ExcWrite(k) == sup[k].pc = "exc_final" /\ sup'[k].pc = "exc_check"
ExcReturn(k) == sup[k].pc \in {"exc_check", "exc_del"} /\ sup'[k].pc = "done"

\* C13: an exception raised in the supervisor (Popen failing to start the
\* child) is absorbed: the slot is persisted 'failed' with the exception
\* text, the failure notification goes to the slot's owner when there is
\* one, the supervisor returns with no registry entry left for the slot, and
\* the response the launch gave is not touched.
C13_SpawnFailureAbsorbed ==
  [][\A k \in Procs :
       LET s == sup[k].slot
       IN /\ ExcWrite(k)
               => /\ sup[k].exc # ""
                  /\ file'[s].status = "failed"
                  /\ file'[s].error_msg = sup[k].exc
                  /\ sent'[<<"failed", s>>] =
                       sent[<<"failed", s>>] + (IF sup[k].owner # "" THEN 1 ELSE 0)
                  /\ last' = last
          /\ ExcReturn(k) => ~Registered(s)' /\ last' = last
          /\ (sup[k].pc = "spawn" /\ sup'[k].pc = "exc_load")
               => UNCHANGED <<file, running_processes, sent, last>>]_vars

\* C13, the case: Popen has raised for the one run there has been, its
\* supervisor has returned, the slot is 'failed' with the exception text and
\* the owner has been told.
C13_Witness ==
  /\ Launched = 1
  /\ sup[1].pc = "done"
  /\ proc[1].state = "none"
  /\ file[sup[1].slot].status = "failed"
  /\ file[sup[1].slot].error_msg = "[Errno 2] No such file or directory"
  /\ ~Registered(sup[1].slot)
  /\ sent[<<"failed", sup[1].slot>>] = 1
  /\ last.op = "launch" /\ last.result.code = 200

Terminal(s) == file[s].status \in {"success", "failed"}

\* C14: after every accepted launch the slot reaches 'success' or 'failed',
\* the supervisor returns, and every registry entry is released.
C14_NeverStuck ==
  \A k \in Procs, s \in Slots :
    /\ (sup[k].pc = "spawn" /\ sup[k].slot = s) ~> Terminal(s)
    /\ (sup[k].pc = "spawn") ~> (sup[k].pc = "done")
    /\ (running_processes[s] = k) ~> ~Registered(s)

\* C14, the case: a run whose child was started and registered has ended,
\* the slot is in a terminal status and the registry entry is gone.
C14_Witness ==
  /\ sup[1].pc = "done"
  /\ proc[1].state = "exited"
  /\ file[sup[1].slot].pid = 1
  /\ Terminal(sup[1].slot)
  /\ ~Registered(sup[1].slot)

\* C15: in every reachable state a slot is 'failed' if and only if its
\* error_msg is not empty.
C15_ErrorIffFailed ==
  \A s \in Slots : (file[s].status = "failed") <=> (file[s].error_msg # "")

\* C16: in every reachable state the persisted pid of a slot is nonzero if
\* and only if the slot's status is 'running'.
C16_PidIffRunning ==
  \A s \in Slots : (file[s].pid # 0) <=> (file[s].status = "running")

\* C17: update_slot_field changes only the fields named in updates of the
\* slot it is called for: every other field of that slot, and every field
\* of every other slot, keeps the value it had in the store the call read.
C17_UpdateFrame ==
  [][Called =>
       /\ DOMAIN file' = DOMAIN file
       /\ \A a \in DOMAIN file :
            /\ DOMAIN file[a] \subseteq DOMAIN file'[a]
            /\ \A f \in DOMAIN file[a] :
                 (a # call'.slot \/ f \notin DOMAIN call'.updates)
                   => file'[a][f] = file[a][f]]_vars

\* C17, the case: a terminal write has been made on a slot whose pid an
\* earlier call had set, and the pid is still there.
C17_Witness ==
  /\ call.n > 1
  /\ call.ret
  /\ "status" \in DOMAIN call.updates
  /\ file[call.slot].status = "success"
  /\ file[call.slot].pid # 0

\* C18: last_update strictly increases on every write to a slot, and
\* changes on no other occasion.
C18_LastUpdateIncreases ==
  [][\A s \in Slots :
       /\ (Called /\ call'.ret /\ call'.slot = s)
            => file'[s].last_update > file[s].last_update
       /\ file'[s].last_update # file[s].last_update
            => Called /\ call'.slot = s]_vars

\* C19: update_slot_field with a slot id outside [0, N) returns False and
\* leaves the durable collection as it was.
C19_OutOfRangeRefused ==
  [][(Called /\ (call'.slot < 0 \/ call'.slot >= NumSlots))
       => call'.ret = FALSE /\ file' = file]_vars

\* C19, the case: after a write that went through, a call with slot id -1
\* has returned False.
C19_Witness ==
  /\ call.n > 1
  /\ call.slot = -1
  /\ call.ret = FALSE
  /\ \E s \in Slots : file[s].pid # 0

\* C20: at no time are two threads inside a load, save or read-modify-write
\* of the store, and the file is read or written only by a thread that
\* holds data_lock.
C20_StoreOpsExclusive ==
  /\ Cardinality(Inside) <= 1
  /\ \A t \in Tasks : task[t].pc \in {"read", "write"} => data_lock

\* C20, the case: one thread is writing the file inside update_slot_field
\* while every other thread waits for the lock.
C20_Witness ==
  \E t \in Tasks :
    /\ task[t] = [op |-> "update_slot_field", pc |-> "write"]
    /\ \A u \in Tasks \ {t} : task[u].pc = "wait"

----------------------------------------------------------------------------
(* SpecFile: load_data, save_data and update_slot_field on the files, with  *)
(* DEFAULT_SLOTS as the object in memory it is                             *)

\* What the data file holds after it was edited or damaged from outside:
\* text that is no JSON, a collection cut short, a blank file, no file, and
\* a collection written by hand without the layout json.dump gives.
Edited == [DEFAULT_SLOTS EXCEPT ![0].owner = "carol", ![0].progress = 7]

Foreign ==
  { [exists |-> TRUE, content |-> <<"garbage">>],
    [exists |-> TRUE, content |-> SubSeq(Dump(DEFAULT_SLOTS), 1, 30)],
    [exists |-> TRUE, content |-> <<"\n">>],
    [exists |-> FALSE, content |-> <<>>],
    [exists |-> TRUE, content |-> SelectSeq(Dump(Edited), IsToken)] }

\* The file is malformed: it is there, not blank, and json.loads raises.
Malformed(d) == d.exists /\ ~IsEmpty(d.content) /\ ~Loads(d.content).ok
WellFormed(d) == d.exists /\ ~IsEmpty(d.content) /\ Loads(d.content).ok

\* f"{DATA_FILE}.backup.{int(time.time())}" and os.rename: an archive made
\* earlier in the same second is replaced.
Archive(backups, t, content) ==
  {b \in backups : b[1] # t} \cup {<<t, content>>}

\* _load_data_unsafe: what it returns, whether that is DEFAULT_SLOTS' own
\* list of slots (DEFAULT_SLOTS.copy() copies the outer dict only), and the
\* files it leaves.
LoadUnsafe(d, dflt, t) ==
  LET parsed == Loads(d.content)
  IN IF ~d.exists \/ IsEmpty(d.content)
       THEN [data |-> dflt, alias |-> TRUE, disk |-> d]
     ELSE IF parsed.ok
       THEN [data |-> parsed.value, alias |-> FALSE, disk |-> d]
     ELSE [data |-> dflt, alias |-> TRUE,
           disk |-> [d EXCEPT !.exists = FALSE, !.content = <<>>,
                              !.backups = Archive(@, t, d.content)]]

\* A store operation can begin: none is inside the lock.
CanBegin == io.pc \in {"idle", "done"} /\ io.n < MaxFileOps

Begin(op, pc, loaded) ==
  [io EXCEPT !.op = op, !.pc = pc, !.data = loaded.data,
             !.alias = loaded.alias, !.raised = FALSE, !.ret = TRUE,
             !.n = @ + 1]

\* The file is changed from outside while no operation is at work.
Damage(f) ==
  /\ io.pc \in {"idle", "done"}
  /\ io.faults < MaxFaults
  /\ disk' = [disk EXCEPT !.exists = f.exists, !.content = f.content]
  /\ io' = [io EXCEPT !.faults = @ + 1]
  /\ UNCHANGED <<file, core, now, call, data_lock, task, stdout, defaults, errpipe>>

\* time.time() passes a second.
Tick ==
  /\ now < MaxTime
  /\ now' = now + 1
  /\ UNCHANGED <<file, core, call, data_lock, task, stdout, disk, defaults, io, errpipe>>

\* load_data()
FileLoad ==
  /\ CanBegin
  /\ LET loaded == LoadUnsafe(disk, defaults, now)
     IN /\ disk' = loaded.disk
        /\ io' = Begin("load", "done", loaded)
  /\ UNCHANGED <<file, core, now, call, data_lock, task, stdout, defaults, errpipe>>

\* data = load_data(), the first half of save_data(load_data())
FileReload ==
  /\ CanBegin
  /\ LET loaded == LoadUnsafe(disk, defaults, now)
     IN /\ disk' = loaded.disk
        /\ io' = Begin("resave", "open", loaded)
  /\ UNCHANGED <<file, core, now, call, data_lock, task, stdout, defaults, errpipe>>

\* update_slot_field up to its save: the load, the range check and the
\* assignments, which are made in DEFAULT_SLOTS' own slots when the load
\* returned them.
FileUpdate(s, updates) ==
  /\ CanBegin
  /\ LET loaded == LoadUnsafe(disk, defaults, now)
         data == UpdateSlotField(loaded.data, s, updates)
     IN /\ disk' = loaded.disk
        /\ IF ValidSlot(loaded.data, s)
             THEN /\ io' = [Begin("update", "open", loaded) EXCEPT !.data = data]
                  /\ defaults' = IF loaded.alias THEN data ELSE defaults
             ELSE /\ io' = [Begin("update", "done", loaded) EXCEPT !.ret = FALSE]
                  /\ UNCHANGED defaults
  /\ UNCHANGED <<file, core, now, call, data_lock, task, stdout, errpipe>>

\* reset_all_slots up to its save: data = DEFAULT_SLOTS.copy() is a new
\* dict around DEFAULT_SLOTS' own list of slots, as they are by now.
FileResetAll ==
  /\ CanBegin
  /\ io' = Begin("reset_all", "open", [data |-> defaults, alias |-> TRUE])
  /\ UNCHANGED <<file, core, now, call, data_lock, task, stdout, disk, defaults, errpipe>>

\* The temporary file is opened in place of the data file.
SaveOpenInPlace ==
  /\ io.pc = "open"
  /\ disk' = [disk EXCEPT !.exists = TRUE, !.content = <<>>,
                          !.tmp_exists = TRUE, !.tmp = <<>>]
  /\ io' = [io EXCEPT !.pc = "dump"]
  /\ UNCHANGED <<file, core, now, call, data_lock, task, stdout, defaults, errpipe>>

\* open(temp_file, "w"): the file is there and empty, or open raises.
SaveOpen ==
  /\ io.pc = "open"
  /\ \/ /\ disk' = [disk EXCEPT !.tmp_exists = TRUE, !.tmp = <<>>]
        /\ io' = [io EXCEPT !.pc = "dump"]
     \/ /\ io' = [io EXCEPT !.pc = "except"]
        /\ UNCHANGED disk
  /\ UNCHANGED <<file, core, now, call, data_lock, task, stdout, defaults, errpipe>>

\* json.dump(data, f, indent=2) and the end of the with block: the whole
\* text is in the temporary file, or a write raises and part of it is (its
\* first token, or all but its last).
SaveDump ==
  /\ io.pc = "dump"
  /\ \/ /\ disk' = [disk EXCEPT !.tmp = Dump(io.data)]
        /\ io' = [io EXCEPT !.pc = "replace"]
     \/ /\ \E n \in {1, Len(Dump(io.data)) - 1} :
             disk' = [disk EXCEPT !.tmp = SubSeq(Dump(io.data), 1, n)]
        /\ io' = [io EXCEPT !.pc = "except"]
  /\ UNCHANGED <<file, core, now, call, data_lock, task, stdout, defaults, errpipe>>

\* os.replace(temp_file, DATA_FILE): done in one step, or it raises.
SaveReplace ==
  /\ io.pc = "replace"
  /\ \/ /\ disk' = [disk EXCEPT !.exists = TRUE, !.content = disk.tmp,
                                !.tmp_exists = FALSE, !.tmp = <<>>]
        /\ io' = [io EXCEPT !.pc = "done"]
     \/ /\ io' = [io EXCEPT !.pc = "except"]
        /\ UNCHANGED disk
  /\ UNCHANGED <<file, core, now, call, data_lock, task, stdout, defaults, errpipe>>

\* except Exception: the temporary file is removed when it is there, and
\* the exception goes on to the caller.
SaveExcept ==
  /\ io.pc = "except"
  /\ disk' = [disk EXCEPT !.tmp_exists = FALSE, !.tmp = <<>>]
  /\ io' = [io EXCEPT !.pc = "done", !.raised = TRUE]
  /\ UNCHANGED <<file, core, now, call, data_lock, task, stdout, defaults, errpipe>>

FileNext ==
  \/ \E f \in Foreign : Damage(f)
  \/ Tick
  \/ FileLoad
  \/ FileReload
  \/ \E s \in Slots \cup {NumSlots} :
       FileUpdate(s, [status |-> "running", owner |-> "alice", pid |-> 1])
  \/ FileResetAll
  \/ SaveOpen
  \/ SaveDump
  \/ SaveReplace
  \/ SaveExcept

SpecFile == Init /\ [][FileNext]_vars

----------------------------------------------------------------------------
(* C21..C30 *)

\* What the lines of a run leave in its slot: the last figure reported,
\* at most 100 (0 when none was), and the last log path ("" when none was).
RECURSIVE LastProgress(_)
LastProgress(written) ==
  IF written = <<>> THEN 0
  ELSE LET p == ParseLine(written[Len(written)]).progress
       IN IF p >= 0 THEN (IF p <= 100 THEN p ELSE 100)
          ELSE LastProgress(SubSeq(written, 1, Len(written) - 1))

RECURSIVE LastLogFile(_)
LastLogFile(written) ==
  IF written = <<>> THEN ""
  ELSE LET l == ParseLine(written[Len(written)])
       IN IF l.log_match THEN l.log_file
          ELSE LastLogFile(SubSeq(written, 1, Len(written) - 1))

\* The slot of run k holds what run k was launched with and what run k
\* itself produced.
OwnRecord(k) ==
  LET slot == file[sup[k].slot]
      spawned == proc[k].state # "none"
  IN /\ slot.id = sup[k].slot
     /\ slot.owner = OutputParams[sup[k].slot].owner
     /\ slot.script_path = OutputParams[sup[k].slot].script_path
     /\ slot.test_case = "tc"
     /\ slot.pid = IF spawned THEN k ELSE 0
     /\ slot.log_file = LastLogFile(stdout[k].written)
     /\ slot.status \in {"success", "failed"}
     /\ slot.status = "success" => slot.progress = 100 /\ slot.error_msg = ""
     /\ slot.status = "failed" =>
           /\ slot.progress = LastProgress(stdout[k].written)
           /\ slot.error_msg # ""

AllComplete == \A k \in Procs : sup[k].pc = "done"

\* C21: when different slots are launched concurrently and all runs have
\* completed, each slot's record holds its own launch parameters and its
\* own run's pid, progress, log_file and terminal status.
C21_RunsKeptApart == AllComplete => \A k \in Procs : OwnRecord(k)

\* Both runs are over: one succeeded and left its log path, the other
\* failed at 7 percent with no log path.
C21_Witness ==
  /\ AllComplete
  /\ \E j, k \in Procs :
       /\ Outcome(file[sup[j].slot])[1] = "success"
       /\ file[sup[j].slot].log_file = "/var/logs/run1.log"
       /\ file[sup[j].slot].pid = j
       /\ file[sup[k].slot].status = "failed"
       /\ file[sup[k].slot].progress = 7
       /\ file[sup[k].slot].log_file = ""
       /\ file[sup[k].slot].pid = k

\* Request thread r commits the write of handler op in this step.
Commits(r, op) ==
  req[r].op = op /\ req[r].pc = "save" /\ req'[r].pc = "done"

\* C22: when reset of a valid slot returns, the slot is 'idle' with every
\* other field at its default, and the registry has no entry for the slot.
C22_ResetClears ==
  [][\A r \in Reqs :
       Commits(r, "reset")
         => /\ file'[req[r].slot] = DefaultSlot(req[r].slot)
            /\ ~Registered(req[r].slot)']_vars

\* C23: the write committed by setup or clear lands on a slot whose status
\* at commit time is not 'running', and a setup or clear that finds the
\* slot running is refused and changes nothing.
C23_NoEditOfRunning ==
  [][\A r \in Reqs :
       /\ (Commits(r, "setup") \/ Commits(r, "clear"))
            => file[req[r].slot].status # "running"
       /\ (req[r].pc = "idle" /\ req'[r].pc = "done"
             /\ last'.op \in {"setup", "clear"})
            => UNCHANGED <<file, running_processes, sup, proc, sent>>]_vars

\* C24: setup of a slot that is not running leaves it 'idle' with the
\* supplied configuration and cleared result fields, and leaves every other
\* slot as it was.
C24_SetupWrites ==
  [][\A r \in Reqs :
       Commits(r, "setup")
         => LET s == req[r].slot
            IN /\ file'[s].status = "idle"
               /\ file'[s].owner = req[r].arg.owner
               /\ file'[s].script_path = req[r].arg.script_path
               /\ file'[s].progress = 0
               /\ file'[s].error_msg = ""
               /\ \A a \in Slots \ {s} : file'[a] = file[a]]_vars

\* The supervisor of run k takes the next line of the pipe in this step.
ReadStep(k) == stdout'[k].read = stdout[k].read + 1
NextLine(k) == stdout[k].written[stdout[k].read + 1]

\* C25: every progress figure the supervisor writes is the reported integer
\* or 100, whichever is smaller, and the progress of every slot stays within
\* 0..100 whatever lines the children write.
C25_ProgressClamped ==
  [][/\ \A s \in Slots : file'[s].progress \in 0..100
     /\ \A k \in Procs :
          (ReadStep(k) /\ ParseLine(NextLine(k)).progress >= 0)
            => LET p == ParseLine(NextLine(k)).progress
               IN file'[sup[k].slot].progress = IF p <= 100 THEN p ELSE 100]_vars

\* A line reporting 150 percent has been read and the running slot shows 100.
C25_Witness ==
  \E k \in Procs :
    /\ stdout[k].read >= 1
    /\ stdout[k].written[stdout[k].read] = "progress: 150%\n"
    /\ sup[k].pc = "read"
    /\ file[sup[k].slot].status = "running"
    /\ file[sup[k].slot].progress = 100

\* C26 as stated: while a slot is 'running' no write lowers its progress.
C26_ProgressMonotonic ==
  [][\A s \in Slots :
       (file[s].status = "running" /\ file'[s].status = "running")
         => file'[s].progress >= file[s].progress]_vars

\* C26: while a slot is 'running' its progress is lowered only by a line of
\* the slot's own run that reports a figure below the current one, and it
\* is lowered to that figure.
C26_LoweredAsReported ==
  [][\A s \in Slots :
       (/\ file[s].status = "running" /\ file'[s].status = "running"
        /\ file'[s].progress < file[s].progress)
         => \E k \in Procs :
              /\ sup[k].slot = s
              /\ ReadStep(k)
              /\ ParseLine(NextLine(k)).progress \in 0 .. (file[s].progress - 1)
              /\ file'[s].progress = ParseLine(NextLine(k)).progress]_vars

\* A run reported 50 percent, then 7, and its running slot shows 7.
C26_Witness ==
  \E k \in Procs :
    /\ stdout[k].written = <<"Progress: 50%\n", "PROGRESS   7%\n">>
    /\ stdout[k].read = 2
    /\ file[sup[k].slot].status = "running"
    /\ file[sup[k].slot].progress = 7

\* str.strip() has nothing left to remove.
Trimmed(text) ==
  text = "" \/ (~IsSpace(Char(text, 1)) /\ ~IsSpace(Char(text, Len(text))))

\* C27: when the supervisor makes its terminal write every line of the
\* child has been read, and the slot's log_file is the trimmed path of the
\* last LOG_FILE= line; a line matching neither pattern changes nothing in
\* the store.
C27_LogFileBeforeTerminal ==
  [][\A k \in Procs :
       /\ FinalWrite(k)
            => /\ stdout[k].read = Len(stdout[k].written)
               /\ file[sup[k].slot].log_file = LastLogFile(stdout[k].written)
               /\ Trimmed(file[sup[k].slot].log_file)
       /\ (/\ ReadStep(k)
            /\ ParseLine(NextLine(k)).progress < 0
            /\ ~ParseLine(NextLine(k)).log_match)
            => file' = file]_vars

\* The terminal write is about to be made on a slot whose log_file is the
\* path of a line that had blanks around it, after a line that matched
\* neither pattern.
C27_Witness ==
  \E k \in Procs :
    /\ sup[k].pc = "final"
    /\ stdout[k].written =
         <<"LOG_FILE= /var/logs/run1.log \n", "progress: done\n">>
    /\ file[sup[k].slot].log_file = "/var/logs/run1.log"
    /\ file[sup[k].slot].status = "running"

\* A store operation begins in this step, with a load of the data file.
LoadStep == io'.n = io.n + 1

\* C28 as stated: load on a malformed file returns the default collection,
\* whatever operations went before, moves the file to an archive name and
\* does not fail.
C28_MalformedGivesDefaults ==
  [][(LoadStep /\ io'.op \in {"load", "resave"} /\ Malformed(disk))
       => /\ io'.data = DEFAULT_SLOTS
          /\ ~disk'.exists
          /\ <<now, disk.content>> \in disk'.backups
          /\ ~io'.raised]_vars

\* The data file as a reader finds it.
Canonical(d) == <<d.exists, d.content>>

\* C29: while a save is at work the data file changes only in the step that
\* ends the save without an error, and then to the whole text of the new
\* collection; a save that raises leaves the data file as it was and no
\* temporary file.
C29_SaveAtomic ==
  [][/\ (io.pc \notin {"idle", "done"} /\ Canonical(disk') # Canonical(disk))
          => /\ io.pc = "replace" /\ io'.pc = "done" /\ ~io'.raised
             /\ Canonical(disk') = <<TRUE, Dump(io.data)>>
             /\ ~disk'.tmp_exists
     /\ (io.pc = "except" /\ io' # io)
          => /\ io'.pc = "done" /\ io'.raised
             /\ Canonical(disk') = Canonical(disk)
             /\ ~disk'.tmp_exists]_vars

\* A write to the temporary file has failed after its first token: the
\* handler is in its except clause and the data file is well-formed.
C29_Witness ==
  /\ io.pc = "except"
  /\ disk.tmp_exists /\ Len(disk.tmp) = 1
  /\ WellFormed(disk)

\* C30: save_data(load_data()) on a well-formed file leaves the collection
\* the file holds as it was, and writes a text that a second
\* save_data(load_data()) writes again token for token.
C30_ResaveIsNoOp ==
  [][(io.op = "resave" /\ ~io.alias /\ io.pc = "replace" /\ io'.pc = "done")
       => LET before == Loads(disk.content)
              after == Loads(disk'.content)
          IN /\ after.ok
             /\ after.value = before.value
             /\ Dump(after.value) = disk'.content]_vars

\* save_data(load_data()) has gone through on a collection written by hand.
C30_Witness ==
  /\ io.op = "resave" /\ io.pc = "done" /\ ~io.raised /\ ~io.alias
  /\ io.faults >= 1
  /\ disk.content = Dump(Edited)

----------------------------------------------------------------------------
(* C31..C39 *)

\* C31: the collection holds exactly NUM_SLOTS records and the record at
\* position i has id i, whatever operations have run.
C31_SlotsNumbered ==
  /\ DOMAIN file = Slots
  /\ \A i \in Slots : file[i].id = i

\* Slot 1 has been launched, has ended and has been reset.
C31_Witness ==
  /\ last.op = "reset" /\ last.slot = 1 /\ last.result.code = 200
  /\ \E k \in Procs : sup[k].pc = "done" /\ sup[k].slot = 1
  /\ file[1] = DefaultSlot(1)

\* The invocation command of run_test_script.
LOG_DIRECTORY == "logs"

\* text.replace(old, new) for a one-character old.
RECURSIVE Replace(_, _, _)
Replace(text, old, new) ==
  IF text = "" THEN ""
  ELSE (IF Char(text, 1) = old THEN new ELSE Char(text, 1))
       \o Replace(SubSeq(text, 2, Len(text)), old, new)

\* text.split(): the words between runs of whitespace, from position i on,
\* word being the part of the current word already read.
RECURSIVE Split(_, _, _)
Split(text, i, word) ==
  LET done == IF word = "" THEN <<>> ELSE <<word>>
  IN IF i > Len(text) THEN done
     ELSE IF IsSpace(Char(text, i)) THEN done \o Split(text, i + 1, "")
     ELSE Split(text, i + 1, word \o Char(text, i))

\* A sanitization that replaces the spaces only.
SanitizeSpaces(text, placeholder) ==
  IF text # "" THEN Replace(text, " ", "_") ELSE placeholder

\* safe_test_case and safe_owner.
Sanitize(text, placeholder) ==
  IF text # "" THEN Replace(Replace(text, " ", "_"), "/", "_")
  ELSE placeholder

\* cmd as handed to Popen.
Command(a) ==
  <<"bash", a.script_path,
    IF a.log_ip # "" THEN a.log_ip ELSE "",
    IF a.log_port # "" THEN a.log_port ELSE "",
    IF a.log_folder # "" THEN a.log_folder ELSE LOG_DIRECTORY,
    Sanitize(a.test_case, "UnknownTest"),
    Sanitize(a.owner, "DefaultUser")>>
  \o (IF a.script_args # "" THEN Split(a.script_args, 1, "") ELSE <<>>)

\* The arguments of run_test_script.
CommandInputs ==
  [script_path : {"run.sh"},
   script_args : {"", "--fast", " -n  2\t-v "},
   log_ip : {"", "10.0.0.5"},
   log_port : {"", "9000"},
   log_folder : {"", "/mnt/logs"},
   test_case : {"", "seq", "Read Write/2", "a  b"},
   owner : {"", "alice", "al ice", "lab/bob"}]

InitCommand ==
  /\ file = DEFAULT_SLOTS
  /\ running_processes = [s \in Slots |-> NoProc]
  /\ req = [r \in Reqs |-> IdleReq]
  /\ sup = [k \in Procs |-> NoSup]
  /\ proc = [k \in Procs |-> NoChild]
  /\ sent = [n \in Kinds \X Slots |-> 0]
  /\ last = Response("none", 0, NoResult)
  /\ launches = 0
  /\ lines = 0
  /\ now = 0
  /\ call \in {[args |-> a, cmd |-> <<>>] : a \in CommandInputs}
  /\ data_lock = FALSE
  /\ task = [t \in Tasks |-> NoTask]
  /\ stdout = [k \in Procs |-> NoOutput]
  /\ disk = InitDisk
  /\ defaults = DEFAULT_SLOTS
  /\ io = NoIo
  /\ errpipe = [k \in Procs |-> NoPipe]

\* run_test_script up to Popen: the command is built from the arguments.
BuildCommand ==
  /\ call.cmd = <<>>
  /\ call' = [call EXCEPT !.cmd = Command(call.args)]
  /\ UNCHANGED <<file, core, now, data_lock, task, stdout, disk, defaults, io, errpipe>>

CommandSpec == InitCommand /\ [][BuildCommand]_vars

\* out is text with each space and each "/" replaced by an underscore.
Underscored(text, out) ==
  /\ Len(out) = Len(text)
  /\ \A i \in 1..Len(text) :
       Char(out, i) = IF Char(text, i) \in {" ", "/"} THEN "_"
                      ELSE Char(text, i)

\* words are the whitespace-separated words of text: as many as text has
\* word starts, none empty, none holding whitespace, together as long as
\* the text without its whitespace.
RECURSIVE TotalLen(_)
TotalLen(words) ==
  IF words = <<>> THEN 0 ELSE Len(Head(words)) + TotalLen(Tail(words))

WordsOf(text, words) ==
  /\ Len(words) = Cardinality({i \in 1..Len(text) :
         /\ ~IsSpace(Char(text, i))
         /\ (IF i = 1 THEN TRUE ELSE IsSpace(Char(text, i - 1)))})
  /\ \A j \in 1..Len(words) :
       /\ words[j] # ""
       /\ \A i \in 1..Len(words[j]) : ~IsSpace(Char(words[j], i))
  /\ TotalLen(words)
       = Cardinality({i \in 1..Len(text) : ~IsSpace(Char(text, i))})

\* The arguments the script receives follow the positional protocol;
\* with placeholders, an empty test_case or owner is passed as its
\* placeholder name.
Protocol(placeholders) ==
  call.cmd # <<>> =>
    LET a == call.args
        argv == Tail(call.cmd)
        Safe(text, out, name) ==
          IF placeholders /\ text = "" THEN out = name
          ELSE Underscored(text, out)
    IN /\ Len(argv) >= 6
       /\ argv[1] = a.script_path
       /\ argv[2] = a.log_ip
       /\ argv[3] = a.log_port
       /\ argv[4] = (IF a.log_folder = "" THEN LOG_DIRECTORY ELSE a.log_folder)
       /\ Safe(a.test_case, argv[5], "UnknownTest")
       /\ Safe(a.owner, argv[6], "DefaultUser")
       /\ WordsOf(a.script_args, SubSeq(argv, 7, Len(argv)))

\* C33 as stated: the script's arguments are script, log_ip, log_port,
\* log directory, test_case and owner with spaces and path separators
\* replaced by underscores, then the extra arguments, for every input.
C33_ArgvAsStated == Protocol(FALSE)

\* C33: the same for every input, except that an empty test_case is passed
\* as "UnknownTest" and an empty owner as "DefaultUser".
C33_ArgvWithPlaceholders == Protocol(TRUE)

\* A command built from empty log_ip and owner, a test_case with a space
\* and a path separator, and three extra arguments.
C33_Witness ==
  /\ call.cmd # <<>>
  /\ call.args.log_ip = "" /\ call.args.owner = ""
  /\ call.args.test_case = "Read Write/2"
  /\ call.cmd[6] = "Read_Write_2"
  /\ Len(call.cmd) = 10

\* A notification of this kind is sent for slot s in this step.
Notified(kind, s) == sent'[<<kind, s>>] = sent[<<kind, s>>] + 1

\* C32: a step that sends a notification persists the slot state the
\* transition dictates and goes on as it would have: a launch answers 200
\* with the slot running, a stop answers 200 with the slot failed and its
\* stop message and the progress the handler loaded, and a supervisor writes success/100 or failed and proceeds
\* to its normal clean-up, whatever the channel did with the message.
C32_NotifyKeepsState ==
  [][\A s \in Slots :
       /\ Notified("started", s) =>
            /\ file'[s].status = "running" /\ file'[s].progress = 0
            /\ file'[s].error_msg = ""
            /\ last'.result.code = 200
       /\ Notified("stopped", s) =>
            /\ file'[s].status = "failed"
            /\ \E r \in Reqs : /\ req[r].op = "stop" /\ req[r].pc = "save"
                               /\ file'[s].progress = req[r].data[s].progress
            /\ file'[s].error_msg = "Test stopped by user"
            /\ last'.result.code = 200
       /\ Notified("completed", s) =>
            /\ file'[s].status = "success" /\ file'[s].progress = 100
            /\ file'[s].error_msg = file[s].error_msg
            /\ \E k \in Procs : FinalWrite(k) /\ sup[k].slot = s
       /\ Notified("failed", s) =>
            /\ file'[s].status = "failed"
            /\ file'[s].progress = file[s].progress
            /\ \E k \in Procs :
                 /\ sup[k].slot = s
                 /\ \/ FinalWrite(k) /\ file'[s].error_msg = ErrorMsg(sup[k].stderr, sup[k].rc)
                    \/ ExcWrite(k) /\ file'[s].error_msg = sup[k].exc]_vars

\* One slot's run has completed and been notified, the other's has been
\* stopped and notified.
C32_Witness ==
  \E s, u \in Slots :
    /\ s # u
    /\ sent[<<"started", s>>] > 0 /\ sent[<<"completed", s>>] > 0
    /\ file[s].status = "success"
    /\ sent[<<"stopped", u>>] > 0
    /\ file[u].error_msg = "Test stopped by user"

\* C34: the steps of a launch come in order.  The child is started on a
\* slot already persisted as running; the pid is written by the supervisor
\* whose handle is already in the registry; and every later write of the
\* run (progress, log_file, terminal status) is made by a supervisor whose
\* child, if it was started, has its pid persisted.
C34_LaunchOrdered ==
  [][\A s \in Slots :
       /\ \A k \in Procs :
            (sup[k].slot = s /\ proc[k].state = "none" /\ proc'[k].state = "alive")
              => file[s].status = "running"
       /\ file'[s].pid # file[s].pid =>
            \E k \in Procs : /\ sup[k].pc = "pid" /\ sup[k].slot = s
                             /\ running_processes[s] = k
                             /\ file'[s].pid = k
       /\ (/\ ~LaunchStep
           /\ \/ file'[s].progress # file[s].progress
              \/ file'[s].log_file # file[s].log_file
              \/ file'[s].status # file[s].status) =>
            \E k \in Procs : /\ sup[k].slot = s
                             /\ sup[k].pc \notin {"none", "done"}
                             /\ proc[k].state # "none" => file[s].pid = k]_vars

\* A run that was registered, has its pid persisted, reported progress and
\* a log file, and has reached its terminal status.
C34_Witness ==
  \E k \in Procs :
    /\ sup[k].pc = "done"
    /\ file[sup[k].slot].pid = k
    /\ file[sup[k].slot].progress = 50
    /\ file[sup[k].slot].log_file # ""
    /\ file[sup[k].slot].status = "failed"

\* Slot s has been launched again after run k.
Relaunched(k, s) ==
  \E j \in Procs : j > k /\ sup[j].pc # "none" /\ sup[j].slot = s

\* C35: when its slot has been launched again, the terminal write of the
\* first run's supervisor leaves the slot's status, progress and error_msg
\* as they are, and its clean-up leaves the second run's registry entry in
\* place.
C35_OwnRunOnly ==
  [][\A k \in Procs :
       LET s == sup[k].slot
       IN (sup[k].pc \notin {"none", "done"} /\ sup'[k] # sup[k] /\ Relaunched(k, s))
            => /\ Outcome(file'[s]) = Outcome(file[s])
               /\ running_processes[s] > k
                    => running_processes'[s] = running_processes[s]]_vars

\* C36: a slot has received at most one terminal notification (completed,
\* failed or stopped) for each of its accepted launches, which the started
\* notifications count; a stopped run has no failed notification besides.
C36_OneTerminalNotification ==
  \A s \in Slots :
    sent[<<"completed", s>>] + sent[<<"failed", s>>] + sent[<<"stopped", s>>]
      <= sent[<<"started", s>>]

\* C37: when reset-all has saved, the data file holds every slot in its
\* default idle state, whatever was loaded and written before.
C37_ResetAllGivesDefaults ==
  [][(io.op = "reset_all" /\ io.pc = "replace" /\ io'.pc = "done")
       => disk'.exists /\ disk'.content = Dump(DEFAULT_SLOTS)]_vars

PipeCapacity == 2

\* The child begins to write a block to its standard error.
ErrBegin(k) ==
  /\ proc[k].state = "alive"
  /\ ~errpipe[k].writing
  /\ errpipe' = [errpipe EXCEPT ![k].writing = TRUE]
  /\ UNCHANGED <<file, core, now, call, data_lock, task, stdout, disk, defaults, io>>

\* The write returns when the pipe has room for the block.  Nothing reads
\* the pipe before process.wait() has returned, so a full pipe stays full.
ErrWrite(k) ==
  /\ proc[k].state = "alive"
  /\ errpipe[k].writing
  /\ errpipe[k].held < PipeCapacity
  /\ errpipe' = [errpipe EXCEPT ![k] = [held |-> @.held + 1, writing |-> FALSE]]
  /\ UNCHANGED <<file, core, now, call, data_lock, task, stdout, disk, defaults, io>>

\* The child ends, which it cannot do inside a write.
PipeExit(k, e) ==
  /\ ~errpipe[k].writing
  /\ Exit(k, e)

PipeNext ==
  \/ \E s \in SlotIds, p \in LaunchParams : RunLaunch(s, p)
  \/ \E k \in Procs : Supervisor(k)
  \/ \E k \in Procs : ErrBegin(k)
  \/ \E k \in Procs : ErrWrite(k)
  \/ \E k \in Procs, e \in RunExits : PipeExit(k, e)

\* A started thread is scheduled until it returns, and the child goes on
\* whenever it is not blocked: a write for which the pipe has room returns,
\* and a child that is not inside a write is taken to end.
PipeFairness ==
  \A k \in Procs :
    /\ WF_vars(Supervisor(k))
    /\ WF_vars(ErrWrite(k))
    /\ WF_vars(\E e \in RunExits : PipeExit(k, e))

PipeSpec == Init /\ [][PipeNext]_vars /\ PipeFairness

\* C39: the supervisor of a started child returns, with the slot in a
\* terminal status, however much the child writes to its standard error.
C39_TerminatesWhateverStderr ==
  \A k \in Procs :
    (proc[k].state = "alive") ~> (sup[k].pc = "done" /\ Terminal(sup[k].slot))

====
